---- MODULE Spec2Model ----
(***************************************************************************)
(* Model of the LoRaWAN frame header codec of fhdr.go: DevAddr, FCtrl and  *)
(* FHDR with their MarshalBinary / UnmarshalBinary methods.  Bytes are     *)
(* naturals in 0..255, byte slices are sequences (Go index k is TLA+ index *)
(* k+1).  The MACCommand type and the cid constants live outside fhdr.go;  *)
(* they are modelled from the specification's collaborator contract.       *)
(***************************************************************************)
EXTENDS Integers, Sequences, FiniteSets, TLC

VARIABLES src, m, h, h0, data, pc, i, pLen, err, mcArg

vars == <<src, m, h, h0, data, pc, i, pLen, err, mcArg>>

(***************************************************************************)
(* Bounds of the explored inputs.                                          *)
(***************************************************************************)
MaxCmds == 2        \* commands per header in the exhaustive command sequences
MaxRepeat == 52     \* repetitions of one 5-byte command in the long sequences
MaxCut == 2         \* bytes cut from the end of a decode input

(***************************************************************************)
(* Program constants.                                                      *)
(***************************************************************************)
HeaderLen == 7
MaxFOptsLen == 15
Uint8Mod == 256

\* cid values of the MAC commands (LoRaWAN 1.0); a request and its answer
\* share one identifier and are told apart by the direction.
LinkCheckAns == 2
LinkADRReq == 3
LinkADRAns == 3
DutyCycleReq == 4
RXParamSetupReq == 5
RXParamSetupAns == 5
DevStatusAns == 6
NewChannelReq == 7
NewChannelAns == 7
RXTimingSetupReq == 8

(***************************************************************************)
(* Bit operations on bytes.                                                *)
(***************************************************************************)
RECURSIVE XorBits(_, _, _)
XorBits(a, b, n) ==
  IF n = 0 THEN 0
  ELSE (((a % 2) + (b % 2)) % 2) + 2 * XorBits(a \div 2, b \div 2, n - 1)

RECURSIVE AndBits(_, _, _)
AndBits(a, b, n) ==
  IF n = 0 THEN 0
  ELSE ((a % 2) * (b % 2)) + 2 * AndBits(a \div 2, b \div 2, n - 1)

Xor8(a, b) == XorBits(a, b, 8)
And8(a, b) == AndBits(a, b, 8)

\* Go slice expression d[lo:hi]
Slice(d, lo, hi) == SubSeq(d, lo + 1, hi)

(***************************************************************************)
(* encoding/binary little endian helpers.  TLC integers are 32-bit signed,  *)
(* so the explored DevAddr values (and byte 3 of decode inputs) stay below *)
(* 2^31.                                                                   *)
(***************************************************************************)
PutUint32(v) ==
  <<v % 256, (v \div 256) % 256, (v \div 65536) % 256, (v \div 16777216) % 256>>

Uint32(d) == d[1] + 256 * d[2] + 65536 * d[3] + 16777216 * d[4]

PutUint16(v) == <<v % 256, (v \div 256) % 256>>

Uint16(d) == d[1] + 256 * d[2]

(***************************************************************************)
(* DevAddr                                                                 *)
(***************************************************************************)
DevAddrMarshalBinary(a) == [err |-> FALSE, b |-> PutUint32(a)]

DevAddrUnmarshalBinary(a, d) ==
  IF Len(d) # 4 THEN [err |-> TRUE, val |-> a]
  ELSE [err |-> FALSE, val |-> Uint32(d)]

(***************************************************************************)
(* FCtrl                                                                   *)
(***************************************************************************)
FCtrlMarshalBinary(c) ==
  IF c.fOptsLen > MaxFOptsLen THEN [err |-> TRUE, b |-> <<>>]
  ELSE LET b0 == c.fOptsLen
           b1 == IF c.FPending THEN Xor8(b0, 16) ELSE b0
           b2 == IF c.ACK THEN Xor8(b1, 32) ELSE b1
           b3 == IF c.ADRACKReq THEN Xor8(b2, 64) ELSE b2
           b4 == IF c.ADR THEN Xor8(b3, 128) ELSE b3
       IN [err |-> FALSE, b |-> <<b4>>]

\* variant: ACK read from bit 4 instead of bit 5
FCtrlUnmarshalBinaryAckBit(c, d) ==
  IF Len(d) # 1 THEN [err |-> TRUE, val |-> c]
  ELSE [err |-> FALSE,
        val |-> [fOptsLen  |-> And8(d[1], Xor8(Xor8(8, 4), Xor8(2, 1))),
                 FPending  |-> And8(d[1], 16) > 0,
                 ACK       |-> And8(d[1], 16) > 0,
                 ADRACKReq |-> And8(d[1], 64) > 0,
                 ADR       |-> And8(d[1], 128) > 0]]

FCtrlUnmarshalBinary(c, d) ==
  IF Len(d) # 1 THEN [err |-> TRUE, val |-> c]
  ELSE [err |-> FALSE,
        val |-> [fOptsLen  |-> And8(d[1], Xor8(Xor8(8, 4), Xor8(2, 1))),
                 FPending  |-> And8(d[1], 16) > 0,
                 ACK       |-> And8(d[1], 32) > 0,
                 ADRACKReq |-> And8(d[1], 64) > 0,
                 ADR       |-> And8(d[1], 128) > 0]]

(***************************************************************************)
(* MACCommand (collaborator): one identifier byte followed by the payload. *)
(***************************************************************************)
MACCommandMarshalBinary(mac) == [err |-> FALSE, b |-> <<mac.CID>> \o mac.Payload]

MACCommandUnmarshalBinary(mc, d) ==
  IF Len(d) = 0 THEN [err |-> TRUE, val |-> mc]
  ELSE [err |-> FALSE,
        val |-> [mc EXCEPT !.CID = d[1], !.Payload = SubSeq(d, 2, Len(d))]]

(***************************************************************************)
(* FHDR.MarshalBinary                                                      *)
(***************************************************************************)
\* the loop over h.FOpts: every command gets the header's direction, is
\* marshalled and appended to opts; the first error aborts.  (The sequence
\* is split in halves to keep the evaluation depth logarithmic; the result
\* is that of the left-to-right loop.)
RECURSIVE MarshalFOpts(_, _)
MarshalFOpts(fopts, uplink) ==
  IF fopts = <<>> THEN [err |-> FALSE, b |-> <<>>]
  ELSE IF Len(fopts) = 1
  THEN LET mac == [fopts[1] EXCEPT !.uplink = uplink]
           r == MACCommandMarshalBinary(mac)
       IN IF r.err THEN [err |-> TRUE, b |-> <<>>] ELSE r
  ELSE LET half == Len(fopts) \div 2
           left == MarshalFOpts(SubSeq(fopts, 1, half), uplink)
           right == MarshalFOpts(SubSeq(fopts, half + 1, Len(fopts)), uplink)
       IN IF left.err THEN left
          ELSE IF right.err THEN right
          ELSE [err |-> FALSE, b |-> left.b \o right.b]

\* h.FCtrl.fOptsLen = uint8(len(opts))
OptsLenField(n) == n % Uint8Mod

FHDRMarshalBinary(hdr) ==
  LET o == MarshalFOpts(hdr.FOpts, hdr.uplink)
  IN IF o.err THEN [err |-> TRUE, out |-> <<>>]
     ELSE LET fc == [hdr.FCtrl EXCEPT !.fOptsLen = OptsLenField(Len(o.b))]
          IN IF fc.fOptsLen > MaxFOptsLen THEN [err |-> TRUE, out |-> <<>>]
             ELSE LET a == DevAddrMarshalBinary(hdr.DevAddr)
                      c == FCtrlMarshalBinary(fc)
                  IN IF a.err \/ c.err THEN [err |-> TRUE, out |-> <<>>]
                     ELSE [err |-> FALSE,
                           out |-> a.b \o c.b \o PutUint16(hdr.Fcnt) \o o.b]

(***************************************************************************)
(* FHDR.UnmarshalBinary: pieces of the command scan.                       *)
(***************************************************************************)
\* variant: the LinkCheckAns case does not look at the direction
PayloadLenNoDirection(uplink, c) ==
  CASE c = LinkCheckAns -> 2
    [] (~uplink) /\ c = LinkADRReq -> 4
    [] uplink /\ c = LinkADRAns -> 1
    [] (~uplink) /\ c = DutyCycleReq -> 1
    [] (~uplink) /\ c = RXParamSetupReq -> 4
    [] uplink /\ c = RXParamSetupAns -> 1
    [] uplink /\ c = DevStatusAns -> 2
    [] (~uplink) /\ c = NewChannelReq -> 4
    [] uplink /\ c = NewChannelAns -> 1
    [] (~uplink) /\ c = RXTimingSetupReq -> 1
    [] OTHER -> 0

\* the switch that resolves the payload length of identifier c
PayloadLen(uplink, c) ==
  CASE (~uplink) /\ c = LinkCheckAns -> 2
    [] (~uplink) /\ c = LinkADRReq -> 4
    [] uplink /\ c = LinkADRAns -> 1
    [] (~uplink) /\ c = DutyCycleReq -> 1
    [] (~uplink) /\ c = RXParamSetupReq -> 4
    [] uplink /\ c = RXParamSetupAns -> 1
    [] uplink /\ c = DevStatusAns -> 2
    [] (~uplink) /\ c = NewChannelReq -> 4
    [] uplink /\ c = NewChannelAns -> 1
    [] (~uplink) /\ c = RXTimingSetupReq -> 1
    [] OTHER -> 0

\* variant: exactly 7 bytes are rejected too
TooShortOrEqual(d) == Len(d) <= HeaderLen

\* len(data) < 7
TooShort(d) == Len(d) < HeaderLen

\* variant: the identifier byte is not counted
NotEnoughBytesOffByOne(d, k, p) == Len(d) - (HeaderLen + k) < p

\* variant: the scan also stops with an error past 15 command bytes
NotEnoughBytesCapped(d, k, p) ==
  \/ Len(d) - (HeaderLen + k) < p + 1
  \/ k + p + 1 > MaxFOptsLen

\* len(data[7+i:]) < pLen+1
NotEnoughBytes(d, k, p) == Len(d) - (HeaderLen + k) < p + 1

\* variant: the payload bytes are not skipped
NextIndexNoSkip(k, p) == k + 1

\* i = i + pLen, followed by the loop's i++
NextIndex(k, p) == (k + p) + 1

\* the loop condition i < len(data[7:])
LoopCond(d, k) == k < Len(d) - HeaderLen

\* the fixed 7-byte part of UnmarshalBinary: length check, DevAddr, FCtrl, Fcnt
UnmarshalPrefix(t, d) ==
  IF TooShort(d) THEN [err |-> "len", hdr |-> t]
  ELSE LET a == DevAddrUnmarshalBinary(t.DevAddr, Slice(d, 0, 4))
           t1 == [t EXCEPT !.DevAddr = a.val]
           c == FCtrlUnmarshalBinary(t1.FCtrl, Slice(d, 4, 5))
           t2 == [t1 EXCEPT !.FCtrl = c.val]
       IN IF a.err THEN [err |-> "devaddr", hdr |-> t]
          ELSE IF c.err THEN [err |-> "fctrl", hdr |-> t1]
          ELSE [err |-> "", hdr |-> [t2 EXCEPT !.Fcnt = Uint16(Slice(d, 5, 7))]]

(***************************************************************************)
(* Inputs.                                                                 *)
(***************************************************************************)
PayloadBytes == <<2, 3, 165, 255>>

Cmd(c, n) == [uplink |-> FALSE, CID |-> c, Payload |-> SubSeq(PayloadBytes, 1, n)]

CmdPool ==
  {Cmd(2, 0), Cmd(2, 2), Cmd(3, 4), Cmd(3, 1),
   Cmd(6, 0), Cmd(6, 2), Cmd(8, 1), Cmd(128, 0)}

SeqsUpTo(S, n) == UNION {[1..k -> S] : k \in 0..n}

Repeat(c, k) == [j \in 1..k |-> c]

ShortSeqs == SeqsUpTo(CmdPool, MaxCmds)

\* k five-byte commands, optionally followed by a one-byte command: streams
\* of 15, 16, 20 and 21 bytes and streams around 256 bytes
RepeatCounts == {3, 4, MaxRepeat - 1, MaxRepeat}

LongSeqs ==
  {Repeat(Cmd(3, 4), k) \o t : k \in RepeatCounts, t \in {<<>>, <<Cmd(2, 0)>>}}

CmdSeqs == ShortSeqs \cup LongSeqs

\* DevAddr, Fcnt and the fOptsLen the header holds before the call
AddrCnt == {<<16909060, 5, 0>>, <<734916353, 65281, 200>>}

FCtrls(n) ==
  [ADR : BOOLEAN, ADRACKReq : BOOLEAN, ACK : BOOLEAN, FPending : BOOLEAN,
   fOptsLen : {n}]

SrcHeaders ==
  {[DevAddr |-> x[1][1], FCtrl |-> x[2], Fcnt |-> x[1][2], FOpts |-> cs,
    uplink |-> u] :
     x \in UNION {{<<ac, fc>> : fc \in FCtrls(ac[3])} : ac \in AddrCnt},
     cs \in CmdSeqs, u \in BOOLEAN}

ZeroFCtrl ==
  [ADR |-> FALSE, ADRACKReq |-> FALSE, ACK |-> FALSE, FPending |-> FALSE,
   fOptsLen |-> 0]

\* a zero-valued FHDR with its direction set
Fresh(u) ==
  [DevAddr |-> 0, FCtrl |-> ZeroFCtrl, Fcnt |-> 0, FOpts |-> <<>>, uplink |-> u]

\* a header that already holds the result of an earlier decode
Used(u) ==
  [DevAddr |-> 1588444911,
   FCtrl |-> [ADR |-> TRUE, ADRACKReq |-> FALSE, ACK |-> TRUE,
              FPending |-> FALSE, fOptsLen |-> 1],
   Fcnt |-> 4660,
   FOpts |-> <<[uplink |-> u, CID |-> 9, Payload |-> <<>>]>>,
   uplink |-> u]

Targets(u) == {Fresh(u), Used(u)}

Wire(cs) == MarshalFOpts(cs, FALSE).b

Cut(d, k) == SubSeq(d, 1, Len(d) - k)

Prefix(ac, fb) == PutUint32(ac[1]) \o <<fb>> \o PutUint16(ac[2])

Prefix0 == Prefix(<<16909060, 5>>, 128)

Prefixes ==
  {Prefix0, Prefix(<<16909060, 5>>, 3),
   Prefix(<<734916353, 65281>>, 127), Prefix(<<734916353, 65281>>, 160)}

Tails == {Cut(Wire(cs), k) : cs \in ShortSeqs, k \in 0..MaxCut}

LongTails == {Wire(cs) : cs \in LongSeqs}

ProbeTails == {<<c>> : c \in 0..255} \cup {<<c, 0, 0, 0, 0>> : c \in 0..255}

DecodeInputs ==
  {SubSeq(Prefix0, 1, k) : k \in 0..6}
  \cup {Prefix(<<734916353, 65281>>, fb) : fb \in 0..255}
  \cup {p \o t : p \in Prefixes, t \in Tails}
  \cup {Prefix0 \o t : t \in LongTails \cup ProbeTails}

NoResult == [called |-> FALSE, err |-> FALSE, out |-> <<>>]

(***************************************************************************)
(* State machine: one Marshal call, optionally followed by decoding its    *)
(* output into a fresh header, or one UnmarshalBinary call on given bytes. *)
(***************************************************************************)
Init ==
  /\ src = Fresh(FALSE)
  /\ m = NoResult
  /\ h = Fresh(FALSE)
  /\ h0 = Fresh(FALSE)
  /\ data = <<>>
  /\ pc = "idle"
  /\ i = 0
  /\ pLen = 0
  /\ err = ""
  /\ mcArg = <<>>

\* out, err := hdr.MarshalBinary()
Marshal ==
  /\ pc = "idle"
  /\ ~m.called
  /\ \E hdr \in SrcHeaders :
       LET r == FHDRMarshalBinary(hdr)
       IN /\ src' = hdr
          /\ m' = [called |-> TRUE, err |-> r.err, out |-> r.out]
  /\ UNCHANGED <<h, h0, data, pc, i, pLen, err, mcArg>>

\* entry of t.UnmarshalBinary(d) up to the start of the command scan
UnmarshalCall(t, d) ==
  LET r == UnmarshalPrefix(t, d)
  IN /\ pc = "idle"
     /\ h0' = t
     /\ data' = d
     /\ h' = r.hdr
     /\ err' = r.err
     /\ pc' = IF r.err # "" THEN "error"
              ELSE IF Len(d) > HeaderLen THEN "scan" ELSE "done"
     /\ i' = 0
     /\ pLen' = 0
     /\ mcArg' = <<>>

UnmarshalData ==
  /\ pc = "idle"
  /\ ~m.called
  /\ \E d \in DecodeInputs, u \in BOOLEAN : \E t \in Targets(u) : UnmarshalCall(t, d)
  /\ UNCHANGED <<src, m>>

\* decode what Marshal produced into a fresh header of the same direction
UnmarshalOut ==
  /\ pc = "idle"
  /\ m.called
  /\ ~m.err
  /\ UnmarshalCall(Fresh(src.uplink), m.out)
  /\ UNCHANGED <<src, m>>

\* one iteration of the for loop over data[7:]
ScanStep ==
  /\ pc = "scan"
  /\ LET p == PayloadLen(h.uplink, data[HeaderLen + i + 1])
         lo == HeaderLen + i
         hi == HeaderLen + i + 1 + p
     IN /\ pLen' = p
        /\ IF NotEnoughBytes(data, i, p)
           THEN /\ pc' = "error"
                /\ err' = "remaining"
                /\ UNCHANGED <<h, i, mcArg>>
           ELSE IF hi > Len(data)
           THEN \* slice bounds out of range: the Go runtime panics
                /\ pc' = "panic"
                /\ err' = "panic"
                /\ UNCHANGED <<h, i, mcArg>>
           ELSE LET mc == [uplink |-> h.uplink, CID |-> 0, Payload |-> <<>>]
                    r == MACCommandUnmarshalBinary(mc, Slice(data, lo, hi))
                IN /\ mcArg' = <<lo, hi>>
                   /\ IF r.err
                      THEN /\ pc' = "error"
                           /\ err' = "mac"
                           /\ UNCHANGED <<h, i>>
                      ELSE /\ h' = [h EXCEPT !.FOpts = Append(@, r.val)]
                           /\ i' = NextIndex(i, p)
                           /\ pc' = IF LoopCond(data, NextIndex(i, p))
                                    THEN "scan" ELSE "done"
                           /\ err' = ""
  /\ UNCHANGED <<src, m, h0, data>>

Next == Marshal \/ UnmarshalData \/ UnmarshalOut \/ ScanStep

Spec == Init /\ [][Next]_vars

FairSpec == Spec /\ WF_vars(ScanStep)

TypeOK ==
  /\ pc \in {"idle", "scan", "done", "error", "panic"}
  /\ i \in Nat
  /\ pLen \in 0..4
  /\ \A k \in 1..Len(data) : data[k] \in 0..255
  /\ \A k \in 1..Len(m.out) : m.out[k] \in 0..255

(***************************************************************************)
(* Properties.                                                             *)
(***************************************************************************)
\* payload length per (identifier, direction) as the specification lists it
TableLen(uplink, c) ==
  IF uplink
  THEN (IF c \in {3, 5, 7} THEN 1 ELSE IF c = 6 THEN 2 ELSE 0)
  ELSE (IF c = 2 THEN 2 ELSE IF c \in {3, 5, 7} THEN 4
        ELSE IF c \in {4, 8} THEN 1 ELSE 0)

RECURSIVE CmdBytes(_)
CmdBytes(cs) ==
  IF cs = <<>> THEN <<>>
  ELSE IF Len(cs) = 1 THEN <<cs[1].CID>> \o cs[1].Payload
  ELSE CmdBytes(SubSeq(cs, 1, Len(cs) \div 2))
       \o CmdBytes(SubSeq(cs, Len(cs) \div 2 + 1, Len(cs)))

StreamLen(cs) == Len(CmdBytes(cs))

CmdView(cs) == [k \in 1..Len(cs) |-> <<cs[k].CID, cs[k].Payload>>]

WellFormed(cs, u) ==
  \A k \in 1..Len(cs) : Len(cs[k].Payload) = TableLen(u, cs[k].CID)

Flags(fc) == <<fc.ADR, fc.ADRACKReq, fc.ACK, fc.FPending>>

FlagsByte(fc, n) ==
  (IF fc.ADR THEN 128 ELSE 0) + (IF fc.ADRACKReq THEN 64 ELSE 0)
  + (IF fc.ACK THEN 32 ELSE 0) + (IF fc.FPending THEN 16 ELSE 0) + n

Bit(b, k) == (b \div k) % 2 = 1

\* the commands the running UnmarshalBinary call has appended so far
Appended == SubSeq(h.FOpts, Len(h0.FOpts) + 1, Len(h.FOpts))

\* position after the command that starts at position p of t; 0 when that
\* command is cut short, p itself when p is past the end
StepPos(t, u, p) ==
  IF p < 1 \/ p > Len(t) THEN p
  ELSE IF p + TableLen(u, t[p]) > Len(t) THEN 0
  ELSE p + 1 + TableLen(u, t[p])

\* position after n commands from position p
RECURSIVE ParsePos(_, _, _, _)
ParsePos(t, u, p, n) ==
  IF n = 0 THEN p
  ELSE IF n = 1 THEN StepPos(t, u, p)
  ELSE LET mid == ParsePos(t, u, p, n \div 2)
       IN IF mid = 0 THEN 0 ELSE ParsePos(t, u, mid, n - (n \div 2))

\* t is a sequence of complete commands for direction u
CompleteCommands(t, u) == ParsePos(t, u, 1, Len(t)) = Len(t) + 1

\* C1: a header whose commands have the payload sizes of their identifier and
\* direction and serialize to at most 15 bytes is marshalled without error,
\* and unmarshalling the output into a fresh header of the same direction
\* does not fail and yields the same DevAddr, Fcnt, flags and commands.
RoundTrip ==
  (m.called /\ StreamLen(src.FOpts) <= 15 /\ WellFormed(src.FOpts, src.uplink))
    => /\ ~m.err
       /\ pc \notin {"error", "panic"}
       /\ pc = "done" =>
            /\ h.DevAddr = src.DevAddr
            /\ h.Fcnt = src.Fcnt
            /\ Flags(h.FCtrl) = Flags(src.FCtrl)
            /\ CmdView(h.FOpts) = CmdView(src.FOpts)

RoundTripWitness ==
  /\ m.called
  /\ pc = "done"
  /\ StreamLen(src.FOpts) = 15
  /\ WellFormed(src.FOpts, src.uplink)
  /\ src.FCtrl.ADR /\ ~src.FCtrl.ACK /\ src.FCtrl.FPending
  /\ Len(h.FOpts) = 3

\* C2: MarshalBinary fails for every command stream of 16 bytes or more,
\* succeeds at exactly 15 bytes and never emits more than 15 command bytes.
MarshalRejectsOversize ==
  m.called =>
    /\ StreamLen(src.FOpts) >= 16 => m.err
    /\ StreamLen(src.FOpts) = 15 => ~m.err
    /\ ~m.err => Len(m.out) - HeaderLen <= 15

\* C3: when UnmarshalBinary returns an error the target header is as it was
\* before the call.
ErrorLeavesTarget ==
  pc = "error" =>
    /\ h.DevAddr = h0.DevAddr
    /\ h.FCtrl = h0.FCtrl
    /\ h.Fcnt = h0.Fcnt
    /\ h.FOpts = h0.FOpts

\* C4: an iteration that finds fewer than 1 + payload length bytes from the
\* identifier to the end of the input returns the not-enough-remaining-bytes
\* error without calling the command decoder; every slice given to the
\* command decoder is data[7+i : 7+i+1+pLen] and ends within the input.
TruncationChecked ==
  /\ [](/\ pc # "panic"
        /\ mcArg # <<>> => (mcArg[1] >= HeaderLen /\ mcArg[2] <= Len(data))
        /\ err = "remaining" =>
             (pc = "error" /\ Len(data) - (HeaderLen + i) < 1 + pLen))
  /\ [][pc = "scan" =>
          IF Len(data) - (HeaderLen + i)
               < 1 + TableLen(h.uplink, data[HeaderLen + i + 1])
          THEN pc' = "error" /\ err' = "remaining" /\ mcArg' = mcArg /\ h' = h
          ELSE mcArg' = <<HeaderLen + i, HeaderLen + i + 1 + pLen'>>]_vars

TruncationWitness ==
  /\ err = "remaining"
  /\ Len(Appended) >= 1
  /\ pLen = 4
  /\ Len(data) - (HeaderLen + i) = 4

\* C5: every iteration resolves the payload length of the specification's
\* table for (identifier, direction); a first identifier 0x02 gets payload
\* length 0 as uplink and 2 as downlink, and that command is decoded without
\* error in either direction when that many bytes remain.
DirectionTable ==
  [][pc = "scan" =>
       /\ pLen' = TableLen(h.uplink, data[HeaderLen + i + 1])
       /\ (i = 0 /\ data[HeaderLen + 1] = 2) =>
            /\ pLen' = (IF h.uplink THEN 0 ELSE 2)
            /\ Len(data) - HeaderLen >= 1 + pLen' =>
                 (pc' \in {"scan", "done"} /\ Len(h'.FOpts) = Len(h.FOpts) + 1)]_vars

DirectionWitness ==
  /\ pc \in {"scan", "done"}
  /\ ~h.uplink
  /\ ~m.called
  /\ Len(Appended) = 1
  /\ Appended[1].CID = 2
  /\ Len(Appended[1].Payload) = 2
  /\ Len(data) = HeaderLen + 3

\* C6: after a successful MarshalBinary the low four bits of output byte 4
\* equal the byte length of the serialized command stream.
OptionsLengthDerived ==
  (m.called /\ ~m.err) => m.out[5] % 16 = StreamLen(src.FOpts)

\* C7: UnmarshalBinary fails on fewer than 7 bytes; on exactly 7 bytes it
\* succeeds, takes DevAddr, flags and Fcnt from the bytes and appends no
\* command.
UnmarshalLengthBoundary ==
  pc # "idle" =>
    /\ Len(data) < 7 => (pc = "error" /\ err = "len")
    /\ Len(data) = 7 =>
         /\ pc = "done"
         /\ h.DevAddr = data[1] + 256 * (data[2] + 256 * (data[3] + 256 * data[4]))
         /\ h.FCtrl.ADR = Bit(data[5], 128)
         /\ h.FCtrl.ADRACKReq = Bit(data[5], 64)
         /\ h.FCtrl.ACK = Bit(data[5], 32)
         /\ h.FCtrl.FPending = Bit(data[5], 16)
         /\ h.Fcnt = data[6] + 256 * data[7]
         /\ h.FOpts = h0.FOpts

UnmarshalSevenWitness ==
  /\ pc = "done"
  /\ ~m.called
  /\ Len(data) = 7
  /\ h0 = Fresh(TRUE)
  /\ h.FOpts = <<>>
  /\ h.FCtrl.ADRACKReq /\ ~h.FCtrl.ADR
  /\ h.Fcnt = 65281

\* C8: a successful MarshalBinary emits 7 + L bytes, L <= 15 the length of
\* the command stream: DevAddr little endian, the flags byte with L in its
\* low nibble, Fcnt little endian, then the commands in order.
MarshalLayout ==
  (m.called /\ ~m.err) =>
    LET L == StreamLen(src.FOpts)
    IN /\ L <= 15
       /\ Len(m.out) = HeaderLen + L
       /\ src.DevAddr = m.out[1] + 256 * (m.out[2] + 256 * (m.out[3] + 256 * m.out[4]))
       /\ m.out[5] = FlagsByte(src.FCtrl, L)
       /\ src.Fcnt = m.out[6] + 256 * m.out[7]
       /\ SubSeq(m.out, 8, Len(m.out)) = CmdBytes(src.FOpts)
       /\ (/\ src.DevAddr = 16909060 /\ src.Fcnt = 5 /\ src.FOpts = <<>>
           /\ Flags(src.FCtrl) = <<TRUE, FALSE, FALSE, FALSE>>)
            => m.out = <<4, 3, 2, 1, 128, 5, 0>>

\* C9: the scan ends in success or error; every iteration that continues
\* moves the position forward; on success the appended commands, one after
\* the other, are exactly the bytes after the 7-byte prefix.
ScanTerminates ==
  /\ (pc = "scan") ~> (pc \in {"done", "error"})
  /\ [][(pc = "scan" /\ pc' \in {"scan", "done"}) =>
          (i' > i /\ i' = i + 1 + Len(Appended'[Len(Appended')].Payload))]_vars
  /\ [](pc = "done" =>
          /\ CmdBytes(Appended) = SubSeq(data, HeaderLen + 1, Len(data))
          /\ StreamLen(Appended) = Len(data) - HeaderLen
          /\ WellFormed(Appended, h.uplink))

ScanWitness ==
  /\ pc = "done"
  /\ ~m.called
  /\ Len(Appended) = 2
  /\ Len(Appended[1].Payload) = 4
  /\ Len(Appended[2].Payload) = 1

\* C10: an input of at least 7 bytes whose remaining bytes are a sequence of
\* complete commands is never rejected, however many bytes follow the prefix
\* and whatever the low nibble of byte 4 is; the scan consumes all of them.
DecodeIgnoresSize ==
  (pc # "idle" /\ Len(data) >= HeaderLen
     /\ CompleteCommands(SubSeq(data, HeaderLen + 1, Len(data)), h.uplink))
    => /\ pc \in {"scan", "done"}
       /\ pc = "done" => (i >= Len(data) - HeaderLen
                          /\ StreamLen(Appended) = Len(data) - HeaderLen)

\* a decoded header with more than 15 command bytes that MarshalBinary refuses
DecodeOversizeWitness ==
  /\ pc = "done"
  /\ ~m.called
  /\ Len(data) - HeaderLen > 15
  /\ h.FCtrl.fOptsLen # Len(data) - HeaderLen
  /\ StreamLen(h.FOpts) > 15
  /\ FHDRMarshalBinary(h).err

====
